---- MODULE Spec2Model ----
(***************************************************************************)
(* Googly-Eyes: the federation router (GooglyEyesInstance), the transport  *)
(* contract (MessageTransport, EnabledMessageTransport), the bot contract  *)
(* (BotInterface) and the action model (BaseModerationAction,              *)
(* ActionFactory), as state machines translated from src/src/googly_eyes.  *)
(***************************************************************************)
EXTENDS Integers, Sequences, FiniteSets, TLC

(***************************************************************************)
(* Bounds of the model.                                                    *)
(***************************************************************************)
MaxBots == 2
MaxTransports == 1
MaxEnvelopes == 2
MaxCoros == 2

(***************************************************************************)
(* Python values.  None is a value of its own; the results of a call are   *)
(* "True", "False", "None", or the exception it raised.                    *)
(***************************************************************************)
None == "None"
Truthy(v) == v = "True"

\* Python values with their types.
Str(v) == [t |-> "str", v |-> v]
DateTime(v) == [t |-> "datetime", v |-> v]
NoneValue == [t |-> "NoneType", v |-> "None"]
ActionType(name) == [t |-> "ModerationActionType", v |-> name]
ReasonType(name) == [t |-> "ActionReasonType", v |-> name]

\* MessageTransportFeatures(Flag): a flag value is the set of its bits.
SEND == "SEND"
RECEIVE == "RECEIVE"
NONE == {}
SEND_RECEIVE == {SEND, RECEIVE}
MessageTransportFeatures == SUBSET SEND_RECEIVE

\* Flag.__contains__: `a in b` holds when b has every bit of a.
FlagIn(a, b) == a \subseteq b
\* Flag.__and__ followed by truth testing: some common bit.
FlagAndTrue(a, b) == a \cap b # {}

(***************************************************************************)
(* The adapters.  Bots are objects that exist before they are registered;  *)
(* A is a MockBotInterface, B an HTTPBotInterface.  Transports are built   *)
(* by add_transport from a transport type.                                 *)
(***************************************************************************)
BotIds == {"A", "B"}
BotType == [b \in BotIds |-> IF b = "A" THEN "Mock" ELSE "HTTP"]
\* BotConfig.name, a fresh uuid-based string per configuration.
ConfigName == [b \in BotIds |-> IF b = "A" THEN "bot-A" ELSE "bot-B"]

\* What `await self._start()` can do: MockBotInterface returns True,
\* HTTPBotInterface returns True or raises from the aiohttp site set-up.
BotStartOutcomes(b) == IF BotType[b] = "Mock" THEN {"True"} ELSE {"True", "raise"}
\* What `await self._stop()` can do.
BotStopOutcomes(b) == IF BotType[b] = "Mock" THEN {"True"} ELSE {"True", "raise"}

\* Transport types: MockMessageTransport, and a subclass of MessageTransport
\* given to add_transport by its caller, which advertises RECEIVE only and
\* whose _start and _stop may fail.  (MQTTTransport advertises, stops and
\* sends as the mock does.)
TransportTypes == {"Mock", "RecvOnly"}
\* The transport types the router is given.
RouterTransportTypes == {"Mock"}
AvailableFeatures(ty) == IF ty = "RecvOnly" THEN {RECEIVE} ELSE SEND_RECEIVE
\* MockMessageTransport._start returns True; the abstract _start returns a
\* bool, or raises as MQTTTransport._start does when connect() fails.
TransportStartOutcomes(ty) ==
    IF ty = "Mock" THEN {"True"} ELSE {"True", "False", "raise"}
\* MessageTransport._stop is declared `-> None`; MockMessageTransport and
\* MQTTTransport both fall off the end of the function.
TransportStopReturn(ty) == None
\* What `self._stop()` can do: return, or raise in a subclass that fails.
TransportStopOutcomes(ty) ==
    IF ty = "Mock" THEN {TransportStopReturn(ty)} ELSE {TransportStopReturn(ty), "raise"}
\* _send_message of both adapters returns True.
SendMessageReturn(ty) == "True"

\* Moderation actions as the router sees them: opaque values.
Actions == {"ban", "kick"}
\* FederatedActionMessage.message_id / message_timestamp defaults, evaluated
\* once when the class body runs.
DefaultMessageId == "uuid-0"
DefaultMessageTimestamp == "now-0"
FederatedActionMessage(action, guild) ==
    [action |-> action, action_guild_id |-> guild,
     message_id |-> DefaultMessageId,
     message_timestamp |-> DateTime(DefaultMessageTimestamp)]
\* Messages a transport may observe inbound.
InboundMessages == {FederatedActionMessage(a, "remote") : a \in Actions}

VARIABLES
    bots,            \* GooglyEyesInstance._bots: list of bots
    transports,      \* GooglyEyesInstance._transports: list of EnabledMessageTransport
    running,         \* GooglyEyesInstance._running
    bot_running,     \* BotInterface._is_running, per bot
    bot_callback,    \* BotInterface._action_callback, per bot
    stop_tasks,      \* bot.stop() tasks created by stop() and not yet run
    last,            \* the last call made on the API and what it invoked
    rt,              \* the action round trip in progress
    loop,            \* GooglyEyesInstance._event_loop and the main_loop task in it
    coros            \* the handle_bot_action coroutines suspended in a do_action

vars == <<bots, transports, running, bot_running, bot_callback, stop_tasks, last, rt, loop, coros>>

(***************************************************************************)
(* Observation records.                                                    *)
(***************************************************************************)
\* op: the method called; target: the bot, or the index of the transport, it
\* was called on; arg: its argument; was: the target's _is_running before the
\* call; invoked: the adapter procedures the call ran, in order; out: what
\* the adapter procedure did; ret: the value returned or the exception
\* raised; sends: the _send_message calls of a dispatch, in order; calls: its
\* do_action calls, in order; callbacks: the action callbacks the call and
\* the do_action calls under it invoked; trace: the events of a dispatch in
\* the order they happened.
Call(op, target, was, invoked, ret) ==
    [op |-> op, target |-> target, arg |-> "none", was |-> was, invoked |-> invoked,
     out |-> "none", ret |-> ret, sends |-> <<>>, calls |-> <<>>,
     callbacks |-> <<>>, trace |-> <<>>]
\* The same for a call that ran an adapter procedure, or might have.
CallOut(op, target, was, r) ==
    [Call(op, target, was, r.invoked, r.ret) EXCEPT !.out = r.out]
NoCall == Call("none", "none", FALSE, <<>>, None)

\* The event loop __init__ creates: not running, and no main_loop task in it.
\* stopping: the bots whose stop() task is suspended inside _stop.
NewLoop == [state |-> "new", main_loop |-> "none", stopping |-> {}]

Raised(ret) == ret \notin {"True", "False", None}

Range(s) == {s[k] : k \in DOMAIN s}
Occurrences(s, x) == Cardinality({k \in DOMAIN s : s[k] = x})
PyBool(v) == IF v THEN "True" ELSE "False"

(***************************************************************************)
(* BotInterface                                                            *)
(***************************************************************************)
\* start() without its `if not self._is_running:`
BotStartInvokesAlways(is_running) == TRUE
\* start(): `if not self._is_running:`
BotStartInvokes(is_running) == ~is_running
\* `self._is_running = await self._start()`
BotStartAssign(out) == Truthy(out)
\* stop() assigning what _stop returned, without the `not`
BotStopAssignPlain(out) == Truthy(out)
\* stop(): `self._is_running = not await self._stop()`
BotStopAssign(out) == ~Truthy(out)

\* bot.start() on a bot whose flag is is_running, when _start does `out`:
\* the flag afterwards and what the call did.
BotInterface_start(is_running, out) ==
    IF BotStartInvokes(is_running)
    THEN IF out = "raise"
         THEN [is_running |-> is_running, invoked |-> <<"_start">>, out |-> out, ret |-> "raise"]
         ELSE [is_running |-> BotStartAssign(out), invoked |-> <<"_start">>, out |-> out,
               ret |-> PyBool(BotStartAssign(out))]
    ELSE [is_running |-> is_running, invoked |-> <<>>, out |-> "none",
          ret |-> PyBool(is_running)]

\* bot.stop()
BotInterface_stop(is_running, out) ==
    IF is_running
    THEN IF out = "raise"
         THEN [is_running |-> is_running, invoked |-> <<"_stop">>, out |-> out, ret |-> "raise"]
         ELSE [is_running |-> BotStopAssign(out), invoked |-> <<"_stop">>, out |-> out,
               ret |-> PyBool(~BotStopAssign(out))]
    ELSE [is_running |-> is_running, invoked |-> <<>>, out |-> "none",
          ret |-> PyBool(~is_running)]

\* bot.start() called on its own, observed.
BotStart(b, out) ==
    LET r == BotInterface_start(bot_running[b], out) IN
    /\ bot_running' = [bot_running EXCEPT ![b] = r.is_running]
    /\ last' = CallOut("bot.start", b, bot_running[b], r)
    /\ UNCHANGED <<bots, transports, running, bot_callback, stop_tasks, rt, loop, coros>>

\* bot.stop() called on its own, observed.
BotStop(b, out) ==
    LET r == BotInterface_stop(bot_running[b], out) IN
    /\ bot_running' = [bot_running EXCEPT ![b] = r.is_running]
    /\ last' = CallOut("bot.stop", b, bot_running[b], r)
    /\ UNCHANGED <<bots, transports, running, bot_callback, stop_tasks, rt, loop, coros>>

\* The same two calls made beside the router, where only the router's own
\* calls are observed.
EnvBotStart(b, out) ==
    /\ bot_running' = [bot_running EXCEPT ![b] = BotInterface_start(bot_running[b], out).is_running]
    /\ last' = NoCall
    /\ UNCHANGED <<bots, transports, running, bot_callback, stop_tasks, rt, loop, coros>>

EnvBotStop(b, out) ==
    /\ bot_running' = [bot_running EXCEPT ![b] = BotInterface_stop(bot_running[b], out).is_running]
    /\ last' = NoCall
    /\ UNCHANGED <<bots, transports, running, bot_callback, stop_tasks, rt, loop, coros>>

\* A bot.stop() task created by GooglyEyesInstance.stop() gets to run.
RunStopTask(b, out) ==
    /\ b \in stop_tasks
    /\ stop_tasks' = stop_tasks \ {b}
    /\ bot_running' = [bot_running EXCEPT ![b] = BotInterface_stop(bot_running[b], out).is_running]
    /\ last' = NoCall
    /\ UNCHANGED <<bots, transports, running, bot_callback, rt, loop, coros>>

(***************************************************************************)
(* MessageTransport                                                        *)
(***************************************************************************)
\* A transport as built by MessageTransport.__init__, wrapped by the
\* EnabledMessageTransport dataclass with its defaults.
NewTransport(ty) ==
    [type |-> ty, is_running |-> FALSE, event_loop |-> FALSE,
     receive_callback |-> None, enabled |-> FALSE, enabled_features |-> NONE]

\* start(): `if not self._is_running:`
TransportStartInvokes(is_running) == ~is_running
\* `self._is_running = self._start()`
TransportStartAssign(out) == Truthy(out)

\* MessageTransport.start() when _start does `out`; in_loop tells whether the
\* caller runs inside an event loop (asyncio.get_running_loop() raises
\* otherwise, after _is_running was assigned).  The transport afterwards and
\* what the call did.
MessageTransport_start(t, out, in_loop) ==
    IF TransportStartInvokes(t.is_running)
    THEN IF out = "raise"
         THEN [t |-> t, invoked |-> <<"_start">>, out |-> out, ret |-> "raise"]
         ELSE IF ~in_loop
         THEN [t |-> [t EXCEPT !.is_running = TransportStartAssign(out)],
               invoked |-> <<"_start">>, out |-> out, ret |-> "raise:no running event loop"]
         ELSE [t |-> [t EXCEPT !.is_running = TransportStartAssign(out), !.event_loop = TRUE],
               invoked |-> <<"_start">>, out |-> out, ret |-> PyBool(TransportStartAssign(out))]
    ELSE [t |-> t, invoked |-> <<>>, out |-> "none", ret |-> PyBool(t.is_running)]

\* stop(): `self._is_running = not self._stop()` with the value _stop returned
TransportStopAssign(ret) == ~Truthy(ret)

\* MessageTransport.stop() when _stop does `out`
MessageTransport_stop(t, out) ==
    IF t.is_running
    THEN IF out = "raise"
         THEN [t |-> t, invoked |-> <<"_stop">>, out |-> out, ret |-> "raise"]
         ELSE LET now == TransportStopAssign(out) IN
              [t |-> [t EXCEPT !.is_running = now], invoked |-> <<"_stop">>,
               out |-> out, ret |-> PyBool(~now)]
    ELSE [t |-> t, invoked |-> <<>>, out |-> "none", ret |-> PyBool(~t.is_running)]

\* send() without its `if not self._is_running: raise`
MessageTransport_send_unchecked(t) ==
    [invoked |-> <<"_send_message">>, out |-> SendMessageReturn(t.type),
     ret |-> SendMessageReturn(t.type)]
\* MessageTransport.send(): raises unless running, else _send_message
MessageTransport_send(t) ==
    IF ~t.is_running
    THEN [invoked |-> <<>>, out |-> "none", ret |-> "raise:not running"]
    ELSE [invoked |-> <<"_send_message">>, out |-> SendMessageReturn(t.type),
          ret |-> SendMessageReturn(t.type)]

\* feature_is_available() that finds every feature available
feature_always_available(t, feature) == TRUE
\* feature_is_available() testing for a common bit instead of containment
feature_overlaps_available(t, feature) == FlagAndTrue(feature, AvailableFeatures(t.type))
\* feature_is_available(): `feature in self._available_features`
feature_is_available(t, feature) == FlagIn(feature, AvailableFeatures(t.type))

(***************************************************************************)
(* EnabledMessageTransport                                                 *)
(***************************************************************************)
\* the test of send() without the feature bit
SendPermittedWhenEnabled(t) == t.enabled
\* the test of send(): enabled and the SEND bit permitted
SendPermitted(t) == t.enabled /\ FlagAndTrue(t.enabled_features, {SEND})
\* the test of set_receive_callback()
ReceivePermitted(t) == t.enabled /\ FlagAndTrue(t.enabled_features, {RECEIVE})

EnabledMessageTransport_send(t) ==
    IF ~SendPermitted(t)
    THEN [invoked |-> <<>>, out |-> "none", ret |-> "raise:not enabled for sending"]
    ELSE MessageTransport_send(t)

EnabledMessageTransport_start(t, out, in_loop) ==
    IF ~t.enabled
    THEN [t |-> t, invoked |-> <<>>, out |-> "none", ret |-> "raise:not enabled"]
    ELSE MessageTransport_start(t, out, in_loop)

\* enable_feature(): the transport afterwards and what the call returned
EnabledMessageTransport_enable_feature(t, features) ==
    IF feature_is_available(t, features)
    THEN [t |-> [t EXCEPT !.enabled_features = @ \cup features], ret |-> None]
    ELSE [t |-> t, ret |-> "raise:feature not available"]

\* disable(): `self._enabled = False; self.stop()`
EnabledMessageTransport_disable(t, out) ==
    MessageTransport_stop([t EXCEPT !.enabled = FALSE], out)

Registered == DOMAIN transports

EmtStart(k, out, in_loop) ==
    LET r == EnabledMessageTransport_start(transports[k], out, in_loop) IN
    /\ transports' = [transports EXCEPT ![k] = r.t]
    /\ last' = CallOut("emt.start", k, transports[k].is_running, r)
    /\ UNCHANGED <<bots, running, bot_running, bot_callback, stop_tasks, rt, loop, coros>>

\* start() called on the wrapped transport itself
TransportStart(k, out, in_loop) ==
    LET r == MessageTransport_start(transports[k], out, in_loop) IN
    /\ transports' = [transports EXCEPT ![k] = r.t]
    /\ last' = CallOut("transport.start", k, transports[k].is_running, r)
    /\ UNCHANGED <<bots, running, bot_running, bot_callback, stop_tasks, rt, loop, coros>>

EmtStop(k, out) ==
    LET r == MessageTransport_stop(transports[k], out) IN
    /\ transports' = [transports EXCEPT ![k] = r.t]
    /\ last' = CallOut("emt.stop", k, transports[k].is_running, r)
    /\ UNCHANGED <<bots, running, bot_running, bot_callback, stop_tasks, rt, loop, coros>>

EmtEnable(k) ==
    /\ transports' = [transports EXCEPT ![k].enabled = TRUE]
    /\ last' = Call("emt.enable", k, transports[k].is_running, <<>>, None)
    /\ UNCHANGED <<bots, running, bot_running, bot_callback, stop_tasks, rt, loop, coros>>

EmtDisable(k, out) ==
    LET r == EnabledMessageTransport_disable(transports[k], out) IN
    /\ transports' = [transports EXCEPT ![k] = r.t]
    /\ last' = Call("emt.disable", k, transports[k].is_running, r.invoked,
                    IF Raised(r.ret) THEN r.ret ELSE None)
    /\ UNCHANGED <<bots, running, bot_running, bot_callback, stop_tasks, rt, loop, coros>>

\* enable() and disable() called beside the router, where only the router's
\* own calls are observed.
EnvEmtEnable(k) ==
    /\ transports' = [transports EXCEPT ![k].enabled = TRUE]
    /\ last' = NoCall
    /\ UNCHANGED <<bots, running, bot_running, bot_callback, stop_tasks, rt, loop, coros>>

EnvEmtDisable(k, out) ==
    /\ transports' = [transports EXCEPT ![k] = EnabledMessageTransport_disable(transports[k], out).t]
    /\ last' = NoCall
    /\ UNCHANGED <<bots, running, bot_running, bot_callback, stop_tasks, rt, loop, coros>>

EmtEnableFeature(k, features) ==
    LET r == EnabledMessageTransport_enable_feature(transports[k], features) IN
    /\ transports' = [transports EXCEPT ![k] = r.t]
    /\ last' = [Call("emt.enable_feature", k, transports[k].is_running, <<>>, r.ret)
                  EXCEPT !.arg = features]
    /\ UNCHANGED <<bots, running, bot_running, bot_callback, stop_tasks, rt, loop, coros>>

\* emt.send(message) called on its own
EmtSend(k) ==
    LET r == EnabledMessageTransport_send(transports[k]) IN
    /\ last' = CallOut("emt.send", k, transports[k].is_running, r)
    /\ UNCHANGED <<bots, transports, running, bot_running, bot_callback, stop_tasks, rt, loop, coros>>

\* send(message) called on the wrapped transport itself
TransportSend(k) ==
    LET r == MessageTransport_send(transports[k]) IN
    /\ last' = CallOut("transport.send", k, transports[k].is_running, r)
    /\ UNCHANGED <<bots, transports, running, bot_running, bot_callback, stop_tasks, rt, loop, coros>>

\* emt.set_receive_callback(callback) called on its own
EmtSetReceiveCallback(k) ==
    /\ IF ~ReceivePermitted(transports[k])
       THEN /\ last' = Call("emt.set_receive_callback", k, transports[k].is_running,
                            <<>>, "raise:not enabled for receiving")
            /\ UNCHANGED transports
       ELSE /\ last' = Call("emt.set_receive_callback", k, transports[k].is_running,
                            <<"set_receive_callback">>, None)
            /\ transports' = [transports EXCEPT ![k].receive_callback = "callback"]
    /\ UNCHANGED <<bots, running, bot_running, bot_callback, stop_tasks, rt, loop, coros>>

(***************************************************************************)
(* GooglyEyesInstance: registration                                        *)
(***************************************************************************)
\* Objects given to add_bot that are no BotInterface.
NonBots == {"not-a-bot"}
\* `isinstance(bot, BotInterface)`
IsBotInterface(obj) == obj \in BotIds

\* add_bot(bot)
AddBot(b) ==
    /\ Len(bots) < MaxBots
    /\ IF ~IsBotInterface(b)
       THEN /\ last' = Call("add_bot", b, FALSE, <<>>, "raise:invalid bot type")
            /\ UNCHANGED <<bots, bot_callback>>
       ELSE /\ bot_callback' = [bot_callback EXCEPT ![b] = "handle_bot_action"]
            /\ bots' = Append(bots, b)
            /\ last' = Call("add_bot", b, bot_running[b], <<>>, None)
    /\ UNCHANGED <<transports, running, bot_running, stop_tasks, rt, loop, coros>>

\* The enabled_features argument of add_transport: None or a flag value.
FeatureArg(is_none, value) == [is_none |-> is_none, value |-> value]
FeatureArgs == {FeatureArg(TRUE, NONE)} \cup {FeatureArg(FALSE, f) : f \in MessageTransportFeatures}

\* add_transport(transport_type, config, enabled_features, enabled)
AddTransport(ty, arg, enabled) ==
    /\ Len(transports) < MaxTransports
    /\ IF arg.is_none
       THEN \* `if not isinstance(enabled_features, MessageTransportFeatures): raise`
            /\ last' = [Call("add_transport", ty, FALSE, <<>>, "raise:invalid features type")
                          EXCEPT !.arg = arg]
            /\ UNCHANGED transports
       ELSE LET t0 == [NewTransport(ty) EXCEPT !.receive_callback = "handle_transport_message"]
                r == EnabledMessageTransport_enable_feature(t0, arg.value)
            IN IF Raised(r.ret)
               THEN /\ last' = [Call("add_transport", ty, FALSE, <<>>, r.ret) EXCEPT !.arg = arg]
                    /\ UNCHANGED transports
               ELSE /\ transports' = Append(transports, [r.t EXCEPT !.enabled = enabled])
                    /\ last' = [Call("add_transport", ty, FALSE, <<>>, None) EXCEPT !.arg = arg]
    /\ UNCHANGED <<bots, running, bot_running, bot_callback, stop_tasks, rt, loop, coros>>

(***************************************************************************)
(* GooglyEyesInstance: dispatch                                            *)
(***************************************************************************)
\* handle_bot_action, first loop: the transports that are sent to
BroadcastsTo(t) == t.enabled /\ FlagIn({SEND}, t.enabled_features)
\* handle_bot_action, second loop: the bots the action is performed on
PropagatesTo(b, source) == bot_running[b] /\ b # source
\* handle_transport_message without its `if bot.running:`
DeliversToAll(b) == TRUE
\* handle_transport_message: the bots the action is performed on
DeliversTo(b) == bot_running[b]

\* The first loop of handle_bot_action from transport k on: the
\* _send_message calls made so far, and whether a send raised (nothing
\* catches it, so the loop and the coroutine end there).
RECURSIVE SendLoop(_, _, _)
SendLoop(k, message, sends) ==
    IF k > Len(transports) THEN [sends |-> sends, raised |-> FALSE]
    ELSE IF ~BroadcastsTo(transports[k]) THEN SendLoop(k + 1, message, sends)
    ELSE LET r == EnabledMessageTransport_send(transports[k]) IN
         IF Raised(r.ret)
         THEN [sends |-> sends, raised |-> TRUE]
         ELSE SendLoop(k + 1, message, Append(sends, [t |-> k, message |-> message]))

\* A bot loop over the list from entry k on: do_action(action,
\* propogate=False) is awaited on each entry that qualifies, in list order.
\* No adapter's do_action suspends or raises.  source is None for the loop
\* of handle_transport_message.
RECURSIVE BotLoop(_, _, _, _)
BotLoop(k, action, source, calls) ==
    IF k > Len(bots) THEN calls
    ELSE LET b == bots[k]
             hit == IF source = None THEN DeliversTo(b) ELSE PropagatesTo(b, source)
         IN BotLoop(k + 1, action, source,
                    IF hit THEN Append(calls, [bot |-> b, action |-> action, propogate |-> FALSE])
                    ELSE calls)

\* do_action(action, propogate) of an adapter: whether it goes on to
\* _propogate_action.  MockBotInterface: `if propogate: await
\* self.fake_action(action)`; HTTPBotInterface appends the action to
\* _taken_actions and does not look at propogate.
DoActionPropagates(b, propogate) == BotType[b] = "Mock" /\ propogate
\* _propogate_action: `if self._action_callback:`
PropagateInvokes(b) == bot_callback[b] # None
\* The callback invocations one do_action call makes.
do_action(b, action, propogate) ==
    IF DoActionPropagates(b, propogate) /\ PropagateInvokes(b)
    THEN <<[bot |-> b, action |-> action]>>
    ELSE <<>>

\* The callback invocations of the do_action calls of a bot loop.
RECURSIVE LoopCallbacks(_)
LoopCallbacks(calls) ==
    IF calls = <<>> THEN <<>>
    ELSE do_action(Head(calls).bot, Head(calls).action, Head(calls).propogate)
            \o LoopCallbacks(Tail(calls))

\* The events of a dispatch: a send on transport `on`, and the call and the
\* return of a do_action on bot `on`.
Event(kind, on) == [kind |-> kind, on |-> on]
SendEvents(sends) == [i \in DOMAIN sends |-> Event("send", sends[i].t)]
RECURSIVE AwaitedCalls(_)
AwaitedCalls(calls) ==
    IF calls = <<>> THEN <<>>
    ELSE <<Event("call", Head(calls).bot), Event("return", Head(calls).bot)>>
            \o AwaitedCalls(Tail(calls))

\* a dispatch that runs the do_action coroutines together (as gather would)
\* and sends afterwards
DispatchOrderGathered(sends, calls) ==
    [i \in DOMAIN calls |-> Event("call", calls[i].bot)]
        \o [i \in DOMAIN calls |-> Event("return", calls[i].bot)]
        \o SendEvents(sends)
\* The order of one dispatch: the send loop runs to its end before the bot
\* loop begins, and `await bot.do_action(...)` returns before the loop goes
\* on to the next bot.
DispatchOrder(sends, calls) == SendEvents(sends) \o AwaitedCalls(calls)

\* handle_bot_action(action, source): what it sent, the do_action calls it
\* made, the callbacks those invoked, and whether it raised.
handle_bot_action(action, source) ==
    LET s == SendLoop(1, FederatedActionMessage(action, ConfigName[source]), <<>>)
        calls == IF s.raised THEN <<>> ELSE BotLoop(1, action, source, <<>>)
    IN [sends |-> s.sends, calls |-> calls, callbacks |-> LoopCallbacks(calls),
        trace |-> DispatchOrder(s.sends, calls),
        ret |-> IF s.raised THEN "raise" ELSE None]

\* Bot `source` reports a locally originated action: _propogate_action
\* awaits the callback add_bot installed, handle_bot_action(action, source).
HandleBotAction(action, source) ==
    /\ bot_callback[source] = "handle_bot_action"
    /\ LET d == handle_bot_action(action, source)
           c == Call("handle_bot_action", source, bot_running[source], <<>>, d.ret)
       IN last' = [c EXCEPT !.arg = action, !.sends = d.sends, !.calls = d.calls,
                            !.callbacks = d.callbacks, !.trace = d.trace]
    /\ UNCHANGED <<bots, transports, running, bot_running, bot_callback, stop_tasks, rt, loop, coros>>

\* bot.do_action(action, propogate) called on a bot by its own surface: the
\* callback it invokes, if any, is handle_bot_action(action, self), which
\* runs under the call.
DoAction(b, action, propogate) ==
    /\ LET cb == do_action(b, action, propogate)
           c == Call("do_action", b, bot_running[b], <<>>, None)
           arg == [action |-> action, propogate |-> propogate]
       IN IF cb = <<>>
          THEN last' = [c EXCEPT !.arg = arg]
          ELSE LET d == handle_bot_action(action, b) IN
               last' = [c EXCEPT !.arg = arg, !.ret = d.ret, !.sends = d.sends,
                                 !.calls = d.calls, !.callbacks = cb \o d.callbacks,
                                 !.trace = d.trace]
    /\ UNCHANGED <<bots, transports, running, bot_running, bot_callback, stop_tasks, rt, loop, coros>>

\* a handle_transport_message that drops the bots it found not running
TransportReceivePruning(k, message) ==
    /\ transports[k].receive_callback # None
    /\ transports[k].event_loop
    /\ LET calls == BotLoop(1, message.action, None, <<>>) IN
       last' = [Call("handle_transport_message", k, transports[k].is_running, <<>>, None)
                  EXCEPT !.arg = message.action, !.calls = calls,
                         !.callbacks = LoopCallbacks(calls),
                         !.trace = DispatchOrder(<<>>, calls)]
    /\ bots' = SelectSeq(bots, DeliversTo)
    /\ UNCHANGED <<transports, running, bot_running, bot_callback, stop_tasks, rt, loop, coros>>

\* Transport k observes an inbound message (mock_receive): _message_received
\* raises without a callback or without the loop start() saved; otherwise it
\* creates the task handle_transport_message(message, self), which runs.
TransportReceive(k, message) ==
    /\ IF transports[k].receive_callback = None \/ ~transports[k].event_loop
       THEN last' = [Call("_message_received", k, transports[k].is_running, <<>>, "raise")
                       EXCEPT !.arg = message.action]
       ELSE LET calls == BotLoop(1, message.action, None, <<>>) IN
            last' = [Call("handle_transport_message", k, transports[k].is_running, <<>>, None)
                       EXCEPT !.arg = message.action, !.calls = calls,
                              !.callbacks = LoopCallbacks(calls),
                              !.trace = DispatchOrder(<<>>, calls)]
    /\ UNCHANGED <<bots, transports, running, bot_running, bot_callback, stop_tasks, rt, loop, coros>>

(***************************************************************************)
(* GooglyEyesInstance: handle_bot_action as a coroutine                    *)
(***************************************************************************)
\* `await bot.do_action(...)` is where a handle_bot_action coroutine can be
\* suspended, when the adapter's do_action waits for its surface; whatever
\* else is ready in the loop runs meanwhile.  A coroutine holds its
\* arguments, the entry of self._bots its `for` statement visits next, what
\* it sent and the do_action calls it has made; quiet tells that no bot was
\* started or stopped since it began, overlapped that a coroutine for
\* another bot's action was in progress during it.
Coroutine(action, source, sends, overlapped) ==
    [action |-> action, source |-> source, k |-> 1, sends |-> sends, calls |-> <<>>,
     quiet |-> TRUE, overlapped |-> overlapped]

\* The bot loop from entry k on: the first entry the action is performed
\* on, 0 when there is none left.
RECURSIVE NextVisit(_, _)
NextVisit(k, source) ==
    IF k > Len(bots) THEN 0
    ELSE IF PropagatesTo(bots[k], source) THEN k
    ELSE NextVisit(k + 1, source)

\* The coroutine after the do_action call on entry j of the list.
Visit(c, j) ==
    [c EXCEPT !.k = j + 1,
              !.calls = Append(@, [bot |-> bots[j], action |-> c.action, propogate |-> FALSE])]

\* The call observed when a handle_bot_action coroutine has ended.
Ended(c, ret) ==
    [Call("handle_bot_action", c.source, bot_running[c.source], <<>>, ret)
       EXCEPT !.arg = c.action, !.sends = c.sends, !.calls = c.calls,
              !.callbacks = LoopCallbacks(c.calls),
              !.trace = DispatchOrder(c.sends, c.calls),
              !.out = [quiet |-> c.quiet, overlapped |-> c.overlapped]]

\* Bot `source` reports an action while other reports may be in progress:
\* handle_bot_action runs its send loop and its bot loop up to the first
\* do_action, where it is suspended; it ends at once when a send raises or
\* no bot is to be visited.
BeginBotAction(action, source) ==
    /\ bot_callback[source] = "handle_bot_action"
    /\ Len(coros) < MaxCoros
    /\ LET s == SendLoop(1, FederatedActionMessage(action, ConfigName[source]), <<>>)
           c == Coroutine(action, source, s.sends,
                          \E i \in DOMAIN coros : coros[i].source # source)
           j == NextVisit(1, source)
           others == [i \in DOMAIN coros |->
                        IF coros[i].source # source
                        THEN [coros[i] EXCEPT !.overlapped = TRUE] ELSE coros[i]]
       IN IF s.raised
          THEN last' = Ended(c, "raise") /\ coros' = others
          ELSE IF j = 0
          THEN last' = Ended(c, None) /\ coros' = others
          ELSE last' = NoCall /\ coros' = Append(others, Visit(c, j))
    /\ UNCHANGED <<bots, transports, running, bot_running, bot_callback, stop_tasks, rt, loop>>

\* The do_action coroutine i waits for returns: its loop goes on to the next
\* do_action, or ends.
ResumeBotAction(i) ==
    /\ i \in DOMAIN coros
    /\ LET c == coros[i]
           j == NextVisit(c.k, c.source)
       IN IF j = 0
          THEN /\ last' = Ended(c, None)
               /\ coros' = SubSeq(coros, 1, i - 1) \o SubSeq(coros, i + 1, Len(coros))
          ELSE /\ last' = NoCall
               /\ coros' = [coros EXCEPT ![i] = Visit(c, j)]
    /\ UNCHANGED <<bots, transports, running, bot_running, bot_callback, stop_tasks, rt, loop>>

\* The coroutines in progress when the bots' flags go from `was` to `now`.
Disturbed(was, now) ==
    [i \in DOMAIN coros |-> IF was = now THEN coros[i] ELSE [coros[i] EXCEPT !.quiet = FALSE]]

\* bot.start() and bot.stop() called while reports may be in progress.
CoBotStart(b, out) ==
    LET now == [bot_running EXCEPT ![b] = BotInterface_start(bot_running[b], out).is_running] IN
    /\ bot_running' = now
    /\ coros' = Disturbed(bot_running, now)
    /\ last' = NoCall
    /\ UNCHANGED <<bots, transports, running, bot_callback, stop_tasks, rt, loop>>

CoBotStop(b, out) ==
    LET now == [bot_running EXCEPT ![b] = BotInterface_stop(bot_running[b], out).is_running] IN
    /\ bot_running' = now
    /\ coros' = Disturbed(bot_running, now)
    /\ last' = NoCall
    /\ UNCHANGED <<bots, transports, running, bot_callback, stop_tasks, rt, loop>>

(***************************************************************************)
(* GooglyEyesInstance: start and stop                                      *)
(***************************************************************************)
\* A start() call the router makes: on the transport, or the bot, at entry
\* `at` of its list.
Started(kind, at) == [kind |-> kind, at |-> at]

\* a start loop that goes on whatever start() did
StartContinuesAlways(ret) == TRUE
\* `if not x.start(): raise ...`: the loop goes on only when start() returned
\* True; an exception start() raised leaves the loop as well.
StartContinues(ret) == ret = "True"

\* start(), first loop from transport k on: `if not transport.start(): raise`
RECURSIVE StartTransports(_, _, _, _)
StartTransports(ts, k, outs, order) ==
    IF k > Len(ts) THEN [ts |-> ts, ok |-> TRUE, order |-> order]
    ELSE LET r == EnabledMessageTransport_start(ts[k], outs[k], TRUE)
             ts1 == [ts EXCEPT ![k] = r.t]
             order1 == Append(order, Started("transport", k))
         IN IF StartContinues(r.ret)
            THEN StartTransports(ts1, k + 1, outs, order1)
            ELSE [ts |-> ts1, ok |-> FALSE, order |-> order1]

\* start(), second loop from entry k on: `if not await bot.start(): raise`
RECURSIVE StartBots(_, _, _, _)
StartBots(br, k, outs, order) ==
    IF k > Len(bots) THEN [br |-> br, ok |-> TRUE, order |-> order]
    ELSE LET b == bots[k]
             r == BotInterface_start(br[b], outs[k])
             br1 == [br EXCEPT ![b] = r.is_running]
             order1 == Append(order, Started("bot", k))
         IN IF StartContinues(r.ret)
            THEN StartBots(br1, k + 1, outs, order1)
            ELSE [br |-> br1, ok |-> FALSE, order |-> order1]

\* The outcomes of the adapters' _start procedures during one start(): every
\* one before entry `at` succeeds and that one does `out` (at = 0: none
\* fails); what those after it would do is never asked for.
Failures == {"False", "raise"}
OutcomesAt(n, at, out) == [k \in 1..n |-> IF k = at THEN out ELSE "True"]

\* start() with the first transport failure at entry tf and the first bot
\* failure at entry bf: the transports and the bots' flags afterwards,
\* whether it reached `self._running = True`, and the start() calls it made
\* on the components, in order.
start(tf, tout, bf, bout) ==
    LET st == StartTransports(transports, 1, OutcomesAt(Len(transports), tf, tout), <<>>)
        sb == IF st.ok
              THEN StartBots(bot_running, 1, OutcomesAt(Len(bots), bf, bout), st.order)
              ELSE [br |-> bot_running, ok |-> FALSE, order |-> st.order]
    IN [ts |-> st.ts, br |-> sb.br, ok |-> sb.ok, order |-> sb.order]

\* The failures that can be asked of the components registered now.
StartInputs(tf, tout, bf, bout) ==
    /\ IF tf = 0 THEN tout = "False" ELSE tout \in TransportStartOutcomes(transports[tf].type)
    /\ IF bf = 0 THEN bout = "False" ELSE bout \in BotStartOutcomes(bots[bf])

\* `await start()`; the call observed holds the start() calls made on the
\* components, in order.
RouterStart(tf, tout, bf, bout) ==
    /\ StartInputs(tf, tout, bf, bout)
    /\ LET r == start(tf, tout, bf, bout)
       IN /\ transports' = r.ts
          /\ bot_running' = r.br
          /\ running' = IF r.ok THEN TRUE ELSE running
          /\ last' = Call("start", "router", running, r.order,
                          IF r.ok THEN None ELSE "raise")
    /\ UNCHANGED <<bots, bot_callback, stop_tasks, rt, loop, coros>>

\* A stop the router asks for: create_task(bot.stop()) for the bot, or
\* transport.stop() on the transport, at entry `at` of its list.
Stopped(kind, at) == [kind |-> kind, at |-> at]

\* stop(), second loop from transport k on: `transport.stop()`, its result
\* unused; nothing catches what it raises.
RECURSIVE StopTransports(_, _, _, _)
StopTransports(ts, k, outs, order) ==
    IF k > Len(ts) THEN [ts |-> ts, ok |-> TRUE, order |-> order]
    ELSE LET r == MessageTransport_stop(ts[k], outs[k])
             ts1 == [ts EXCEPT ![k] = r.t]
             order1 == Append(order, Stopped("transport", k))
         IN IF Raised(r.ret)
            THEN [ts |-> ts1, ok |-> FALSE, order |-> order1]
            ELSE StopTransports(ts1, k + 1, outs, order1)

\* The outcomes of the transports' _stop procedures during one stop(): the
\* one at entry `at` raises (at = 0: none does), the others return.
StopOutcomesAt(at) ==
    [k \in DOMAIN transports |-> IF k = at THEN "raise" ELSE TransportStopReturn(transports[k].type)]

\* stop(): a bot.stop() task per bot, then transport.stop() on each
\* transport, then `self._running = False`; tf is the entry of the first
\* transport whose _stop raises.
RouterStop(tf) ==
    /\ tf # 0 => /\ transports[tf].is_running
                 /\ "raise" \in TransportStopOutcomes(transports[tf].type)
    /\ LET tasks == [k \in DOMAIN bots |-> Stopped("bot", k)]
           st == StopTransports(transports, 1, StopOutcomesAt(tf), tasks)
       IN /\ stop_tasks' = stop_tasks \cup Range(bots)
          /\ transports' = st.ts
          /\ running' = IF st.ok THEN FALSE ELSE running
          /\ last' = Call("stop", "router", running, st.order,
                          IF st.ok THEN None ELSE "raise")
    /\ UNCHANGED <<bots, bot_running, bot_callback, rt, loop, coros>>

(***************************************************************************)
(* GooglyEyesInstance: async_run and main_loop                             *)
(***************************************************************************)
\* Whether an adapter's _stop suspends: HTTPBotInterface._stop awaits the
\* site's stop and the runner's cleanup, MockBotInterface._stop awaits
\* nothing.
StopSuspends(b) == BotType[b] = "HTTP"

\* async_run(): the SIGINT handler is installed, the main_loop task created
\* and the loop run.
AsyncRun ==
    /\ loop.state = "new"
    /\ loop' = [loop EXCEPT !.state = "running", !.main_loop = "created"]
    /\ last' = Call("async_run", "router", running, <<>>, None)
    /\ UNCHANGED <<bots, transports, running, bot_running, bot_callback, stop_tasks, rt, coros>>

\* main_loop, its first step: `await self.start()`.  When start() raises
\* the task ends with the exception and the loop goes on running.
MainLoopStart(tf, tout, bf, bout) ==
    /\ loop.state = "running"
    /\ loop.main_loop = "created"
    /\ StartInputs(tf, tout, bf, bout)
    /\ LET r == start(tf, tout, bf, bout)
       IN /\ transports' = r.ts
          /\ bot_running' = r.br
          /\ running' = IF r.ok THEN TRUE ELSE running
          /\ loop' = [loop EXCEPT !.main_loop = IF r.ok THEN "sleeping" ELSE "failed"]
          /\ last' = Call("start", "router", running, r.order,
                          IF r.ok THEN None ELSE "raise")
    /\ UNCHANGED <<bots, bot_callback, stop_tasks, rt, coros>>

\* SIGINT arrives while the loop runs: the handler async_run installed,
\* stop(), is called in the loop.
SignalStop(tf) ==
    /\ loop.state = "running"
    /\ loop.main_loop # "created"
    /\ RouterStop(tf)

\* A bot.stop() task takes its first step: it ends there when the bot is
\* not running or its _stop does not suspend, and otherwise waits inside
\* _stop.
StopTaskBegins(b, out) ==
    /\ loop.state = "running"
    /\ b \in stop_tasks
    /\ stop_tasks' = stop_tasks \ {b}
    /\ IF bot_running[b] /\ StopSuspends(b)
       THEN /\ loop' = [loop EXCEPT !.stopping = @ \cup {b}]
            /\ UNCHANGED bot_running
       ELSE /\ bot_running' =
                 [bot_running EXCEPT ![b] = BotInterface_stop(bot_running[b], out).is_running]
            /\ UNCHANGED loop
    /\ last' = NoCall
    /\ UNCHANGED <<bots, transports, running, bot_callback, rt, coros>>

\* A bot.stop() task waiting inside _stop is resumed and ends.
StopTaskEnds(b, out) ==
    /\ loop.state = "running"
    /\ b \in loop.stopping
    /\ loop' = [loop EXCEPT !.stopping = @ \ {b}]
    /\ bot_running' = [bot_running EXCEPT ![b] = BotInterface_stop(bot_running[b], out).is_running]
    /\ last' = NoCall
    /\ UNCHANGED <<bots, transports, running, bot_callback, stop_tasks, rt, coros>>

\* main_loop wakes from `await asyncio.sleep(1)`: `while self._running`
\* sleeps again, and otherwise `self._event_loop.stop()` halts the loop.  The
\* first steps of the tasks stop() created were queued before this wake-up.
MainLoopWake ==
    /\ loop.state = "running"
    /\ loop.main_loop = "sleeping"
    /\ ~running => stop_tasks = {}
    /\ loop' = IF running THEN loop
               ELSE [loop EXCEPT !.state = "stopped", !.main_loop = "done"]
    /\ last' = NoCall
    /\ UNCHANGED <<bots, transports, running, bot_running, bot_callback, stop_tasks, rt, coros>>

(***************************************************************************)
(* The action model: BaseModerationAction and ActionFactory                *)
(***************************************************************************)
ModerationActionTypeNames == {"BAN", "KICK", "WARN", "TIMEOUT", "TRUST"}
ActionReasonTypeNames ==
    {"SPAM", "HARASSMENT", "INAPPROPRIATE_CONTENT", "RULE_VIOLATION", "ABUSE",
     "DISRUPTIVE_BEHAVIOR", "OTHER"}

\* The class create_action picks for an action type.
ActionClass(name) ==
    CASE name = "BAN" -> "BanAction"
      [] name = "KICK" -> "KickAction"
      [] name = "WARN" -> "WarnAction"
      [] name = "TIMEOUT" -> "TimeoutAction"
      [] name = "TRUST" -> "TrustAction"

\* ActionFactory.create_action(action_type, **kwargs): the subclasses are not
\* dataclasses of their own, so the generated __init__ and __eq__ are those
\* of BaseModerationAction, over its seven fields.
create_action(action_type, kwargs) ==
    [class |-> ActionClass(action_type.v),
     action_type |-> action_type,
     target_user_id |-> kwargs.target_user_id,
     action_moderator_id |-> kwargs.action_moderator_id,
     action_reason |-> kwargs.action_reason,
     action_reason_type |-> kwargs.action_reason_type,
     action_context |-> kwargs.action_context,
     action_timestamp |-> kwargs.action_timestamp]

\* Enum.name and datetime.isoformat() give strings.
EnumName(e) == Str(e.v)
isoformat(d) == Str(d.v)

\* to_json(): the JSON object written; strings and null survive json.dumps
\* and json.loads as they are.
to_json(a) ==
    [action_type |-> EnumName(a.action_type),
     target_user_id |-> a.target_user_id,
     action_moderator_id |-> a.action_moderator_id,
     action_reason |-> a.action_reason,
     action_reason_type |-> EnumName(a.action_reason_type),
     action_context |-> a.action_context,
     action_timestamp |-> isoformat(a.action_timestamp)]

\* from_dict(data): the two enums are looked up by name, every other entry
\* is passed on to create_action as it was read.
from_dict(data) ==
    create_action(ActionType(data.action_type.v),
                  [target_user_id |-> data.target_user_id,
                   action_moderator_id |-> data.action_moderator_id,
                   action_reason |-> data.action_reason,
                   action_reason_type |-> ReasonType(data.action_reason_type.v),
                   action_context |-> data.action_context,
                   action_timestamp |-> data.action_timestamp])

\* from_json(json_string)
from_json(json_string) == from_dict(json_string)

\* dataclass __eq__: same class and equal field tuples
ActionEq(a, b) == a = b

\* The actions built through the factory.
ConstructibleActions ==
    {create_action(ActionType(ty),
                   [target_user_id |-> Str("user-1"),
                    action_moderator_id |-> Str("mod-1"),
                    action_reason |-> Str("reason"),
                    action_reason_type |-> ReasonType(rty),
                    action_context |-> ctx,
                    action_timestamp |-> DateTime(ts)]) :
       ty \in ModerationActionTypeNames, rty \in ActionReasonTypeNames,
       ctx \in {NoneValue, Str("context")},
       ts \in {"2025-01-01T00:00:00+00:00", "2025-06-01T12:30:00+00:00"}}

\* phase: how far the experiment on the model classes has come; a: the
\* object made; json: what to_json wrote; b: what from_json built; made: the
\* envelopes constructed so far; call: the arguments of the last
\* create_action; ret: the exception the last call raised, or None.
NoRT ==
    [phase |-> "off", a |-> "none", json |-> "none", b |-> "none",
     made |-> <<>>, call |-> "none", ret |-> None]

\* a.to_json()
Serialize ==
    /\ rt.phase = "made"
    /\ rt' = [rt EXCEPT !.phase = "json", !.json = to_json(rt.a)]
    /\ UNCHANGED <<bots, transports, running, bot_running, bot_callback, stop_tasks, last, loop, coros>>

\* ActionFactory.from_json(...)
Deserialize ==
    /\ rt.phase = "json"
    /\ rt' = [rt EXCEPT !.phase = "back", !.b = from_json(rt.json)]
    /\ UNCHANGED <<bots, transports, running, bot_running, bot_callback, stop_tasks, last, loop, coros>>

(***************************************************************************)
(* The action model: FederatedActionMessage and the factory's validation   *)
(***************************************************************************)
\* The variables the model classes do not touch.
RouterVars == <<bots, transports, running, bot_running, bot_callback, stop_tasks, last, loop, coros>>

\* The actions and guild ids envelopes are constructed with.
EnvelopeActions ==
    {a \in ConstructibleActions :
        /\ a.action_type.v \in {"BAN", "KICK"}
        /\ a.action_reason_type.v = "SPAM"
        /\ a.action_context = NoneValue
        /\ a.action_timestamp.v = "2025-01-01T00:00:00+00:00"}
Guilds == {ConfigName[b] : b \in BotIds}

\* FederatedActionMessage(action=..., action_guild_id=...), as
\* handle_bot_action constructs it
MakeMessage(action, guild) ==
    /\ rt.phase \in {"off", "messages"}
    /\ Len(rt.made) < MaxEnvelopes
    /\ rt' = [rt EXCEPT !.phase = "messages",
                        !.made = Append(@, FederatedActionMessage(action, guild))]
    /\ UNCHANGED RouterVars

\* FederatedActionMessage.to_json(): the JSON object written
message_to_json(m) ==
    [action |-> to_json(m.action),
     action_guild_id |-> m.action_guild_id,
     message_id |-> m.message_id,
     message_timestamp |-> isoformat(m.message_timestamp)]

\* from_dict(): `ModerationActionType[...]` and `ActionReasonType[...]` raise
\* KeyError for a name that is no member.
FromDictRaises(data) ==
    \/ data.action_type.v \notin ModerationActionTypeNames
    \/ data.action_reason_type.v \notin ActionReasonTypeNames

\* FederatedActionMessage.from_json(): the action through from_dict, every
\* other entry passed to the constructor as it was read.
message_from_json(json) ==
    IF FromDictRaises(json.action)
    THEN [ret |-> "raise:KeyError", m |-> "none"]
    ELSE [ret |-> None,
          m |-> [action |-> from_dict(json.action),
                 action_guild_id |-> json.action_guild_id,
                 message_id |-> json.message_id,
                 message_timestamp |-> json.message_timestamp]]

\* m.to_json() on envelope i
SerializeMessage(i) ==
    /\ rt.phase = "messages"
    /\ i \in DOMAIN rt.made
    /\ rt' = [rt EXCEPT !.phase = "message json", !.a = rt.made[i],
                        !.json = message_to_json(rt.made[i])]
    /\ UNCHANGED RouterVars

\* A payload arrives whose nested action names no action type.
CorruptPayload ==
    /\ rt.phase = "message json"
    /\ ~FromDictRaises(rt.json.action)
    /\ rt' = [rt EXCEPT !.json.action.action_type = Str("BOGUS")]
    /\ UNCHANGED RouterVars

\* FederatedActionMessage.from_json(...)
DeserializeMessage ==
    /\ rt.phase = "message json"
    /\ LET r == message_from_json(rt.json) IN
       rt' = [rt EXCEPT !.phase = "message back", !.b = r.m, !.ret = r.ret]
    /\ UNCHANGED RouterVars

\* Values given to create_action as the action type that are no member of
\* ModerationActionType.
UnknownKinds == {"MUTE"}
\* The keywords of the kind-specific fields.
PayloadKeywords == {"can_appeal", "timeout_duration"}
\* The keywords the __init__ generated for BaseModerationAction accepts; the
\* subclasses, which are not decorated, inherit it as it is.
InitKeywords ==
    {"action_type", "target_user_id", "action_moderator_id", "action_reason",
     "action_reason_type", "action_context", "action_timestamp"}

\* ActionFactory.create_action(kind, **kwargs, plus the keywords `given`):
\* ValueError for an unknown kind, else the constructor, which raises
\* TypeError for a keyword it does not know.
create_action_call(kind, kwargs, given) ==
    IF kind \notin ModerationActionTypeNames
    THEN [ret |-> "raise:ValueError unknown action type", action |-> "none"]
    ELSE IF ~(given \subseteq InitKeywords)
    THEN [ret |-> "raise:TypeError unexpected keyword argument", action |-> "none"]
    ELSE [ret |-> None, action |-> create_action(ActionType(kind), kwargs)]

\* The keyword arguments of the common fields.
CommonKwargs ==
    [target_user_id : {Str("user-1")}, action_moderator_id : {Str("mod-1")},
     action_reason : {Str("reason")},
     action_reason_type : {ReasonType(n) : n \in ActionReasonTypeNames},
     action_context : {NoneValue, Str("context")},
     action_timestamp : {DateTime("2025-01-01T00:00:00+00:00"),
                         DateTime("2025-06-01T12:30:00+00:00")}]

\* A call of ActionFactory.create_action
CreateAction(kind, kwargs, given) ==
    /\ rt.phase \in {"off", "created"}
    /\ LET r == create_action_call(kind, kwargs, given) IN
       rt' = [NoRT EXCEPT !.phase = "created", !.call = [kind |-> kind, given |-> given],
                          !.a = r.action, !.ret = r.ret]
    /\ UNCHANGED RouterVars

(***************************************************************************)
(* The specifications                                                      *)
(***************************************************************************)
Init ==
    /\ bots = <<>>
    /\ transports = <<>>
    /\ running = FALSE
    /\ bot_running = [b \in BotIds |-> FALSE]
    /\ bot_callback = [b \in BotIds |-> None]
    /\ stop_tasks = {}
    /\ last = NoCall
    /\ rt = NoRT
    /\ loop = NewLoop
    /\ coros = <<>>

\* The router: registration, start and stop, the two dispatch paths, and
\* beside it the administrative switch of a transport and the bots' own
\* lifecycle.
Next ==
    \/ \E b \in BotIds : AddBot(b)
    \/ \E ty \in RouterTransportTypes, arg \in FeatureArgs, en \in BOOLEAN :
          AddTransport(ty, arg, en)
    \/ \E b \in BotIds : \E out \in BotStartOutcomes(b) : EnvBotStart(b, out)
    \/ \E b \in BotIds : \E out \in BotStopOutcomes(b) : EnvBotStop(b, out)
    \/ \E b \in BotIds : \E out \in BotStopOutcomes(b) : RunStopTask(b, out)
    \/ \E k \in Registered : EnvEmtEnable(k)
    \/ \E k \in Registered : \E out \in TransportStopOutcomes(transports[k].type) :
          EnvEmtDisable(k, out)
    \/ \E a \in Actions, b \in BotIds : HandleBotAction(a, b)
    \/ \E k \in Registered : \E m \in InboundMessages : TransportReceive(k, m)
    \/ \E tf \in 0..Len(transports), bf \in 0..Len(bots) : \E tout, bout \in Failures :
          RouterStart(tf, tout, bf, bout)
    \/ \E tf \in 0..Len(transports) : RouterStop(tf)

Spec == Init /\ [][Next]_vars

\* The parts on their own: every call of the EnabledMessageTransport and
\* BotInterface API, in any order, on the transports add_transport built and
\* on the bots.
NextParts ==
    \/ \E ty \in TransportTypes, arg \in FeatureArgs, en \in BOOLEAN : AddTransport(ty, arg, en)
    \/ \E b \in BotIds : \E out \in BotStartOutcomes(b) : BotStart(b, out)
    \/ \E b \in BotIds : \E out \in BotStopOutcomes(b) : BotStop(b, out)
    \/ \E k \in Registered : \E out \in TransportStartOutcomes(transports[k].type) :
          \E in_loop \in BOOLEAN : EmtStart(k, out, in_loop)
    \/ \E k \in Registered : \E out \in TransportStartOutcomes(transports[k].type) :
          \E in_loop \in BOOLEAN : TransportStart(k, out, in_loop)
    \/ \E k \in Registered : \E out \in TransportStopOutcomes(transports[k].type) :
          EmtStop(k, out)
    \/ \E k \in Registered : EmtEnable(k)
    \/ \E k \in Registered : \E out \in TransportStopOutcomes(transports[k].type) :
          EmtDisable(k, out)
    \/ \E k \in Registered : \E f \in MessageTransportFeatures : EmtEnableFeature(k, f)
    \/ \E k \in Registered : EmtSend(k)
    \/ \E k \in Registered : TransportSend(k)
    \/ \E k \in Registered : EmtSetReceiveCallback(k)

SpecParts == Init /\ [][NextParts]_vars

\* The router's lifecycle with every transport type: registration, start,
\* stop and the stop tasks.
NextLifecycle ==
    \/ \E b \in BotIds \cup NonBots : AddBot(b)
    \/ \E ty \in TransportTypes, arg \in FeatureArgs, en \in BOOLEAN : AddTransport(ty, arg, en)
    \/ \E tf \in 0..Len(transports), bf \in 0..Len(bots) : \E tout, bout \in Failures :
          RouterStart(tf, tout, bf, bout)
    \/ \E tf \in 0..Len(transports) : RouterStop(tf)
    \/ \E b \in BotIds : \E out \in BotStopOutcomes(b) : RunStopTask(b, out)

SpecLifecycle == Init /\ [][NextLifecycle]_vars

\* The round trip of every constructible action.
InitRT ==
    /\ bots = <<>>
    /\ transports = <<>>
    /\ running = FALSE
    /\ bot_running = [b \in BotIds |-> FALSE]
    /\ bot_callback = [b \in BotIds |-> None]
    /\ stop_tasks = {}
    /\ last = NoCall
    /\ \E a \in ConstructibleActions : rt = [NoRT EXCEPT !.phase = "made", !.a = a]
    /\ loop = NewLoop
    /\ coros = <<>>

NextRT == Serialize \/ Deserialize

SpecRoundTrip == InitRT /\ [][NextRT]_vars

\* The model classes: construction through the factory, envelopes and
\* their round trip.
NextModels ==
    \/ \E kind \in ModerationActionTypeNames \cup UnknownKinds, kwargs \in CommonKwargs,
          given \in SUBSET PayloadKeywords : CreateAction(kind, kwargs, given)
    \/ \E a \in EnvelopeActions, g \in Guilds : MakeMessage(a, g)
    \/ \E i \in 1..MaxEnvelopes : SerializeMessage(i)
    \/ CorruptPayload
    \/ DeserializeMessage

SpecModels == Init /\ [][NextModels]_vars

\* The bots' do_action beside the router's dispatch: registration, start,
\* a bot stopping, do_action called with either value of propogate, and a
\* bot reporting an action.
NextEcho ==
    \/ \E b \in BotIds : AddBot(b)
    \/ \E ty \in RouterTransportTypes, arg \in FeatureArgs, en \in BOOLEAN :
          AddTransport(ty, arg, en)
    \/ \E tf \in 0..Len(transports), bf \in 0..Len(bots) : \E tout, bout \in Failures :
          RouterStart(tf, tout, bf, bout)
    \/ \E b \in BotIds : \E out \in BotStopOutcomes(b) : EnvBotStop(b, out)
    \/ \E b \in BotIds, a \in Actions, p \in BOOLEAN : DoAction(b, a, p)
    \/ \E a \in Actions, b \in BotIds : HandleBotAction(a, b)

SpecEcho == Init /\ [][NextEcho]_vars

\* The router run by async_run: registration, the main loop, SIGINT and
\* the stop tasks, with stop procedures that succeed.  The loop runs what is
\* ready, so main_loop's wake-up and every step of a stop task are taken
\* when they stay possible.
NextShutdown ==
    \/ \E b \in BotIds : AddBot(b)
    \/ \E ty \in RouterTransportTypes, arg \in FeatureArgs, en \in BOOLEAN :
          AddTransport(ty, arg, en)
    \/ AsyncRun
    \/ \E tf \in 0..Len(transports), bf \in 0..Len(bots) : \E tout, bout \in Failures :
          MainLoopStart(tf, tout, bf, bout)
    \/ \E tf \in 0..Len(transports) : SignalStop(tf)
    \/ \E b \in BotIds : StopTaskBegins(b, "True")
    \/ \E b \in BotIds : StopTaskEnds(b, "True")
    \/ MainLoopWake

SpecShutdown ==
    /\ Init
    /\ [][NextShutdown]_vars
    /\ WF_vars(MainLoopWake)
    /\ \A b \in BotIds : WF_vars(StopTaskBegins(b, "True"))
    /\ \A b \in BotIds : WF_vars(StopTaskEnds(b, "True"))

\* Reports of several bots in progress together: registration, the bots'
\* and the transports' start and stop, and the handle_bot_action
\* coroutines step by step.
NextInterleave ==
    \/ \E b \in BotIds : AddBot(b)
    \/ \E ty \in RouterTransportTypes, arg \in FeatureArgs, en \in BOOLEAN :
          AddTransport(ty, arg, en)
    \/ \E k \in Registered : \E out \in TransportStartOutcomes(transports[k].type) :
          EmtStart(k, out, TRUE)
    \/ \E b \in BotIds : \E out \in BotStartOutcomes(b) : CoBotStart(b, out)
    \/ \E b \in BotIds : \E out \in BotStopOutcomes(b) : CoBotStop(b, out)
    \/ \E a \in Actions, b \in BotIds : BeginBotAction(a, b)
    \/ \E i \in 1..MaxCoros : ResumeBotAction(i)

SpecInterleave == Init /\ [][NextInterleave]_vars

(***************************************************************************)
(* Properties of the router's dispatch (specification Spec)                *)
(***************************************************************************)
\* The do_action calls of the last dispatch made on bot b, in order.
CallsTo(b) == SelectSeq(last.calls, LAMBDA c : c.bot = b)
\* The _send_message calls of the last dispatch made on transport k.
SendsTo(k) == SelectSeq(last.sends, LAMBDA s : s.t = k)
\* The do_action call the router makes for an action.
Performed(b, action) == [bot |-> b, action |-> action, propogate |-> FALSE]

\* C1 (echo avoidance): when a bot reports an action with handle_bot_action
\* and it and another bot are registered (once each) and running, the other
\* bot receives exactly one do_action with that action and propogate=False,
\* and the reporting bot receives none.
C1_EchoAvoidance ==
    last.op = "handle_bot_action" =>
        \A b \in BotIds \ {last.target} :
            ( /\ Occurrences(bots, last.target) = 1 /\ Occurrences(bots, b) = 1
              /\ bot_running[last.target] /\ bot_running[b] )
            => /\ CallsTo(b) = <<Performed(b, last.arg)>>
               /\ CallsTo(last.target) = <<>>

C3_OutboundFederation ==
    (last.op = "handle_bot_action" /\ running) =>
        \A k \in DOMAIN transports :
            IF transports[k].enabled /\ SEND \in transports[k].enabled_features
            THEN /\ Len(SendsTo(k)) = 1
                 /\ SendsTo(k)[1].message.action_guild_id = ConfigName[last.target]
                 /\ SendsTo(k)[1].message.action = last.arg
            ELSE SendsTo(k) = <<>>

\* C4 (partial failure isolation): a failing send does not leave
\* handle_bot_action as an exception, every enabled SEND-permitted transport
\* whose send can succeed is still sent to, and every running bot other than
\* the origin still receives do_action(action, propogate=False).
C4_PartialFailureIsolation ==
    last.op = "handle_bot_action" =>
        /\ ~Raised(last.ret)
        /\ \A k \in DOMAIN transports :
              (transports[k].enabled /\ SEND \in transports[k].enabled_features
                 /\ transports[k].is_running)
              => Len(SendsTo(k)) = 1
        /\ \A b \in Range(bots) \ {last.target} :
              bot_running[b] => \E i \in DOMAIN last.calls : last.calls[i] = Performed(b, last.arg)

(***************************************************************************)
(* Properties of the action model (specification SpecRoundTrip)            *)
(***************************************************************************)
\* C5 (action round trip): for every constructible action a of the five
\* kinds, ActionFactory.from_json(a.to_json()) is an action of the same
\* class that equals a field for field, the timestamp included.
C5_ActionRoundTrip ==
    rt.phase = "back" =>
        /\ rt.b.class = rt.a.class
        /\ ActionEq(rt.b, rt.a)

(***************************************************************************)
(* Properties of the transport and bot contracts (specification SpecParts) *)
(***************************************************************************)
\* C6 (feature gating): send on an EnabledMessageTransport that is not both
\* enabled and permitted SEND raises and does not invoke _send_message, so a
\* transport advertising only RECEIVE rejects send even when enabled;
\* set_receive_callback is gated the same way on RECEIVE.
C6_FeatureGating ==
    /\ last.op = "emt.send" =>
          LET t == transports[last.target] IN
          /\ ~(t.enabled /\ SEND \in t.enabled_features)
                => (last.ret = "raise:not enabled for sending" /\ last.invoked = <<>>)
          /\ AvailableFeatures(t.type) = {RECEIVE}
                => (last.ret = "raise:not enabled for sending" /\ last.invoked = <<>>)
    /\ last.op = "emt.set_receive_callback" =>
          LET t == transports[last.target] IN
          ~(t.enabled /\ RECEIVE \in t.enabled_features)
             => (last.ret = "raise:not enabled for receiving" /\ last.invoked = <<>>)

\* C6, its case: an enabled transport that advertises only RECEIVE was asked
\* to send and refused.
C6_Witness ==
    /\ last.op = "emt.send"
    /\ transports[last.target].type = "RecvOnly"
    /\ transports[last.target].enabled
    /\ last.ret = "raise:not enabled for sending"

\* C7 (permitted within advertised): in every step the permitted features of
\* every transport stay within its advertised features, the advertised
\* features of a transport do not change, and enable_feature(F) with F not
\* contained in the advertised features raises and leaves the permitted
\* features as they were.
C7_Step ==
    \A k \in DOMAIN transports' :
        /\ transports'[k].enabled_features \subseteq AvailableFeatures(transports'[k].type)
        /\ k \in DOMAIN transports =>
              /\ AvailableFeatures(transports'[k].type) = AvailableFeatures(transports[k].type)
              /\ ( /\ last'.op = "emt.enable_feature"
                   /\ last'.target = k
                   /\ ~(last'.arg \subseteq AvailableFeatures(transports[k].type)) )
                 => /\ last'.ret = "raise:feature not available"
                    /\ transports'[k].enabled_features = transports[k].enabled_features
C7_PermittedWithinAdvertised == [][C7_Step]_vars

\* C7, its case: enable_feature was refused a feature the transport does not
\* advertise.
C7_Witness ==
    /\ last.op = "emt.enable_feature"
    /\ ~(last.arg \subseteq AvailableFeatures(transports[last.target].type))
    /\ last.ret = "raise:feature not available"

\* C8 (idempotent start): start() on a running bot or transport does not
\* invoke _start and returns True; start() on a stopped one invokes _start
\* exactly once, and the instance is running afterwards exactly when _start
\* returned True.
C8_IdempotentStart ==
    /\ last.op = "bot.start" =>
          IF last.was
          THEN last.invoked = <<>> /\ last.ret = "True" /\ bot_running[last.target]
          ELSE last.invoked = <<"_start">> /\ (bot_running[last.target] <=> last.out = "True")
    /\ last.op = "transport.start" =>
          IF last.was
          THEN last.invoked = <<>> /\ last.ret = "True" /\ transports[last.target].is_running
          ELSE /\ last.invoked = <<"_start">>
               /\ transports[last.target].is_running <=> last.out = "True"

\* C8, its case: start() was called on a bot that was already running.
C8_Witness ==
    /\ last.op = "bot.start"
    /\ last.was
    /\ last.invoked = <<>>

\* C9 (transport stop): stop() on a running transport leaves it not running
\* and returns True, and stop() on a transport that is not running returns
\* True without invoking _stop.
C9_TransportStop ==
    last.op = "emt.stop" =>
        /\ ~transports[last.target].is_running
        /\ last.ret = "True"
        /\ (last.invoked = <<"_stop">>) <=> last.was

\* C10 (bot lifecycle): after start() of a bot whose _start succeeds the bot
\* is running; after stop() of a bot whose _stop succeeds it is not running;
\* stop() on a bot that is not running does not invoke _stop.
C10_BotLifecycle ==
    /\ (last.op = "bot.start" /\ last.out \in {"True", "none"}) => bot_running[last.target]
    /\ (last.op = "bot.stop" /\ last.out \in {"True", "none"}) =>
          /\ ~bot_running[last.target]
          /\ (last.invoked = <<"_stop">>) <=> last.was

\* C10, its case: a running bot was stopped and is no longer running.
C10_Witness ==
    /\ last.op = "bot.stop"
    /\ last.was
    /\ ~bot_running[last.target]

(***************************************************************************)
(* Properties of the router's start, stop and registration (Spec)          *)
(***************************************************************************)
\* The start() calls of a start() that reaches every component: the
\* transports in registration order, then the bots in registration order.
StartupOrder ==
    [i \in 1..(Len(transports) + Len(bots)) |->
        IF i <= Len(transports) THEN Started("transport", i)
        ELSE Started("bot", i - Len(transports))]
\* Whether the component of a start() call is running.
IsRunning(c) ==
    IF c.kind = "transport" THEN transports[c.at].is_running ELSE bot_running[bots[c.at]]

ShutdownOrder ==
    [i \in 1..(Len(bots) + Len(transports)) |->
        IF i <= Len(bots) THEN Stopped("bot", i)
        ELSE Stopped("transport", i - Len(bots))]

\* C12 (stop never raises): stop() asks every registered bot and then every
\* registered transport to stop, whatever the stop of any of them does, and
\* returns without raising.
C12_StopNeverRaises ==
    last.op = "stop" =>
        /\ ~Raised(last.ret)
        /\ last.invoked = ShutdownOrder

\* C13 (registration after start): while the router is marked running,
\* after a start() that completed, add_bot and add_transport fail.
C13_RegistrationAfterStart ==
    (running /\ last.op \in {"add_bot", "add_transport"}) => Raised(last.ret)

\* C14 (receive wiring): an inbound message observed by a transport that
\* was registered without RECEIVE permitted reaches no bot's do_action.
C14_ReceiveWiringGated ==
    ( /\ last.op \in {"handle_transport_message", "_message_received"}
      /\ RECEIVE \notin transports[last.target].enabled_features )
    => last.calls = <<>>

\* C15 (default feature set): add_transport called without a feature set
\* succeeds, and the transport it appends has exactly the features its
\* adapter advertises permitted.
C15_DefaultFeatureSet ==
    (last.op = "add_transport" /\ last.arg.is_none) =>
        /\ ~Raised(last.ret)
        /\ transports # <<>>
        /\ transports[Len(transports)].enabled_features = AvailableFeatures(last.target)

\* C16 (invalid registrations): add_transport with a feature set that is not
\* within the adapter's advertised features fails, add_bot with an object
\* that is no bot fails, and either leaves the transport list, the bot list
\* and the bots' callbacks as they were.
C16_Step ==
    LET invalid_features == /\ last'.op = "add_transport"
                            /\ ~last'.arg.is_none
                            /\ ~(last'.arg.value \subseteq AvailableFeatures(last'.target))
        invalid_bot == last'.op = "add_bot" /\ last'.target \notin BotIds
    IN (invalid_features \/ invalid_bot) =>
          /\ Raised(last'.ret)
          /\ transports' = transports
          /\ bots' = bots
          /\ bot_callback' = bot_callback
C16_InvalidRegistrations == [][C16_Step]_vars

\* C16, its case: add_transport was refused a feature set its adapter does
\* not advertise.
C16_Witness ==
    /\ last.op = "add_transport"
    /\ ~last.arg.is_none
    /\ ~(last.arg.value \subseteq AvailableFeatures(last.target))
    /\ last.ret = "raise:feature not available"

(***************************************************************************)
(* Properties of the envelope and the factory (specification SpecModels)   *)
(***************************************************************************)
\* C17 (unique message ids): any two envelopes constructed without an
\* explicit message id carry different message ids.
C17_UniqueMessageIds ==
    \A i, j \in DOMAIN rt.made :
        i # j => rt.made[i].message_id # rt.made[j].message_id

\* C19 (envelope round trip): FederatedActionMessage.from_json(m.to_json())
\* equals m in its action, action_guild_id, message_id and
\* message_timestamp, and from_json raises when the nested action does not
\* deserialize.
C19_EnvelopeRoundTrip ==
    rt.phase = "message back" =>
        IF FromDictRaises(rt.json.action)
        THEN Raised(rt.ret)
        ELSE /\ ~Raised(rt.ret)
             /\ ActionEq(rt.b.action, rt.a.action)
             /\ rt.b.action_guild_id = rt.a.action_guild_id
             /\ rt.b.message_id = rt.a.message_id
             /\ rt.b.message_timestamp = rt.a.message_timestamp

\* C20 (validated construction): create_action raises for a kind that is
\* none of the five, raises for TIMEOUT without a timeout duration, and for
\* TIMEOUT with a duration, or BAN with an appeal flag, returns an action of
\* the matching class that carries the payload.
C20_ValidatedConstruction ==
    rt.phase = "created" =>
        /\ rt.call.kind \notin ModerationActionTypeNames => Raised(rt.ret)
        /\ (rt.call.kind = "TIMEOUT" /\ "timeout_duration" \notin rt.call.given)
              => Raised(rt.ret)
        /\ (rt.call.kind = "TIMEOUT" /\ rt.call.given = {"timeout_duration"}) =>
              /\ ~Raised(rt.ret)
              /\ rt.a.class = "TimeoutAction"
              /\ "timeout_duration" \in DOMAIN rt.a
        /\ (rt.call.kind = "BAN" /\ rt.call.given = {"can_appeal"}) =>
              /\ ~Raised(rt.ret)
              /\ rt.a.class = "BanAction"
              /\ "can_appeal" \in DOMAIN rt.a

(***************************************************************************)
(* Properties of MessageTransport.send (specification SpecParts)           *)
(***************************************************************************)
\* C18 (send requires running): send on a transport that is not running
\* raises and does not invoke _send_message; on a running transport it
\* invokes _send_message exactly once and returns what that returned.
C18_SendRequiresRunning ==
    last.op = "transport.send" =>
        IF transports[last.target].is_running
        THEN last.invoked = <<"_send_message">> /\ last.ret = last.out /\ ~Raised(last.ret)
        ELSE last.invoked = <<>> /\ last.ret = "raise:not running"

\* C18, its case: send was refused on a transport that is not running.
C18_Witness ==
    /\ last.op = "transport.send"
    /\ ~transports[last.target].is_running
    /\ last.ret = "raise:not running"

(***************************************************************************)
(* Properties of do_action and the callback (specification SpecEcho)       *)
(***************************************************************************)
\* C21 (no infinite echo): do_action called with propogate=False invokes no
\* action callback, so an action a bot reports causes at most one do_action
\* on each registration of another bot, none on the reporting bot and no
\* further callback
\* (the broadcast ends there); do_action called with propogate=True on a bot
\* whose callback is set invokes the callback exactly once.
C21_NoInfiniteEcho ==
    /\ (last.op = "do_action" /\ ~last.arg.propogate) => last.callbacks = <<>>
    /\ last.op = "handle_bot_action" =>
          /\ last.callbacks = <<>>
          /\ CallsTo(last.target) = <<>>
          /\ \A b \in BotIds : Len(CallsTo(b)) <= Occurrences(bots, b)
          /\ \A i \in DOMAIN last.calls : ~last.calls[i].propogate
    /\ (last.op = "do_action" /\ last.arg.propogate /\ bot_callback[last.target] # None)
          => Len(last.callbacks) = 1

(***************************************************************************)
(* Further properties of the router's dispatch (specification Spec)        *)
(***************************************************************************)
\* The bot the dispatch observed last was made for: the reporting bot, or
\* None for a transport's message.
DispatchSource == IF last.op = "handle_bot_action" THEN last.target ELSE None
\* The events of one kind in the dispatch observed last, in order.
EventsOf(kind) == SelectSeq(last.trace, LAMBDA e : e.kind = kind)

C26_OncePerDistinctBot ==
    last.op \in {"handle_bot_action", "handle_transport_message"} =>
        \A b \in BotIds : Len(CallsTo(b)) <= 1

\* C27 (a disabled or stopped transport delivers nothing): an inbound
\* message observed by a transport that is disabled, or not running, is not
\* handed to handle_transport_message and reaches no bot's do_action.
C27_DisabledTransportSilent ==
    ( /\ last.op \in {"handle_transport_message", "_message_received"}
      /\ \/ ~transports[last.target].enabled
         \/ ~transports[last.target].is_running )
    => /\ last.op # "handle_transport_message"
       /\ last.calls = <<>>

\* C28 (dispatch does not change configuration): a step of
\* handle_bot_action or of handle_transport_message leaves the bot list and
\* the transport list, every transport's enabled flag, permitted features
\* and running state, and every bot's running flag and callback as they
\* were.
C28_Step ==
    last'.op \in {"handle_bot_action", "handle_transport_message"} =>
        /\ bots' = bots
        /\ Len(transports') = Len(transports)
        /\ \A k \in DOMAIN transports :
              /\ transports'[k].type = transports[k].type
              /\ transports'[k].enabled = transports[k].enabled
              /\ transports'[k].enabled_features = transports[k].enabled_features
              /\ transports'[k].is_running = transports[k].is_running
        /\ bot_running' = bot_running
        /\ bot_callback' = bot_callback
C28_DispatchFrame == [][C28_Step]_vars

\* C28, its case: a transport's message was performed on one registered bot
\* while another registered bot was not running.
C28_Witness ==
    /\ last.op = "handle_transport_message"
    /\ Len(last.calls) = 1
    /\ \E b \in Range(bots) : ~bot_running[b]

(***************************************************************************)
(* Further properties of the router's start (specification SpecLifecycle)  *)
(***************************************************************************)
\* C23 (start skips disabled transports): start() does not call start on a
\* transport that is not enabled and does not fail because of one; the
\* enabled transports and the bots are started.
C23_StartSkipsDisabled ==
    last.op = "start" =>
        /\ \A k \in DOMAIN transports :
              ~transports[k].enabled => Started("transport", k) \notin Range(last.invoked)
        /\ Raised(last.ret) =>
              LET c == last.invoked[Len(last.invoked)] IN
              ~(c.kind = "transport" /\ ~transports[c.at].enabled)
        /\ ~Raised(last.ret) =>
              /\ \A k \in DOMAIN transports : transports[k].enabled => transports[k].is_running
              /\ \A b \in Range(bots) : bot_running[b]

(***************************************************************************)
(* Properties of the shutdown (specification SpecShutdown)                 *)
(***************************************************************************)
\* stop() has just returned on a router that was marked running.
StopReturned == last.op = "stop" /\ last.was /\ ~Raised(last.ret)
\* No registered bot and no registered transport is running.
AllStopped ==
    /\ \A b \in Range(bots) : ~bot_running[b]
    /\ \A k \in DOMAIN transports : ~transports[k].is_running

\* C24 (shutdown eventually completes): after stop() on a router run by its
\* main loop, with the stop tasks scheduled fairly and stop procedures that
\* succeed, every bot and every transport is eventually not running, and
\* they are so by the time the event loop has halted.
C24_ShutdownCompletes ==
    /\ StopReturned ~> AllStopped
    /\ [](loop.state = "stopped" => AllStopped)

(***************************************************************************)
(* Properties of interleaved reports (specification SpecInterleave)        *)
(***************************************************************************)
\* C25 (interleaved broadcasts): when a handle_bot_action has ended that
\* overlapped with one for another bot's action, and no bot was started or
\* stopped meanwhile, its action was performed exactly once on every
\* registration of a running bot other than the reporting one, and never on
\* that one.
C25_InterleavedBroadcasts ==
    (last.op = "handle_bot_action" /\ last.out.quiet /\ last.out.overlapped) =>
        \A b \in Range(bots) :
            /\ Len(CallsTo(b)) =
                  IF bot_running[b] /\ b # last.target THEN Occurrences(bots, b) ELSE 0
            /\ \A i \in DOMAIN CallsTo(b) : CallsTo(b)[i] = Performed(b, last.arg)

====
